---- MODULE Spec2Model ----
(***************************************************************************)
(* Battery tray for the Waveshare UPS HAT (src/battery_tray.py): the       *)
(* INA219 register driver, the voltage -> capacity conversion, and the     *)
(* periodic update_icon callback that classifies the capacity.             *)
(*                                                                         *)
(* Python floats are IEEE-754 binary64.  Every float the program computes  *)
(* from a 16-bit register word is an integer multiple of 2^-70 and smaller *)
(* than 2^13, so a float is modelled exactly as a signed multiple of 2^-70 *)
(* whose magnitude is a natural number kept as little-endian limbs of 15   *)
(* bits; each arithmetic operation computes the exact result and rounds it *)
(* to 53 significant bits, ties to even, as the hardware does.             *)
(***************************************************************************)
EXTENDS Integers, Sequences, FiniteSets, TLC

\* ------------------------------------------------------------------------
\* Natural numbers of arbitrary size: little-endian limbs, no high zero limb
\* ------------------------------------------------------------------------
LimbBits == 14 + 1
Base == 2 ^ LimbBits

\* e, after v has been evaluated: operator arguments and LET definitions are
\* evaluated when first used, and this keeps evaluations from nesting
After(v, e) == IF v = v THEN e ELSE e

RECURSIVE BNorm(_)
BNorm(a) ==
    IF a = <<>> THEN <<>>
    ELSE IF a[Len(a)] = 0 THEN BNorm(SubSeq(a, 1, Len(a) - 1))
    ELSE a

RECURSIVE BFromInt(_)
BFromInt(k) == IF k = 0 THEN <<>> ELSE <<k % Base>> \o BFromInt(k \div Base)

BLimb(a, i) == IF i <= Len(a) THEN a[i] ELSE 0

\* -1, 0, 1 as a < b, a = b, a > b (both normalised)
RECURSIVE BCmpFrom(_, _, _)
BCmpFrom(a, b, i) ==
    IF i = 0 THEN 0
    ELSE IF a[i] < b[i] THEN -1
    ELSE IF a[i] > b[i] THEN 1
    ELSE BCmpFrom(a, b, i - 1)

BCmp(a, b) ==
    IF Len(a) < Len(b) THEN -1
    ELSE IF Len(a) > Len(b) THEN 1
    ELSE BCmpFrom(a, b, Len(a))

RECURSIVE BAddFrom(_, _, _, _)
BAddFrom(a, b, i, carry) ==
    IF i > Len(a) /\ i > Len(b)
    THEN (IF carry = 0 THEN <<>> ELSE <<carry>>)
    ELSE LET s == BLimb(a, i) + BLimb(b, i) + carry
         IN  <<s % Base>> \o BAddFrom(a, b, i + 1, s \div Base)

BAdd(a, b) == BAddFrom(a, b, 1, 0)

\* a - b for a >= b
RECURSIVE BSubFrom(_, _, _, _)
BSubFrom(a, b, i, borrow) ==
    IF i > Len(a) THEN <<>>
    ELSE LET d == a[i] - BLimb(b, i) - borrow
         IN  IF d < 0 THEN <<d + Base>> \o BSubFrom(a, b, i + 1, 1)
             ELSE <<d>> \o BSubFrom(a, b, i + 1, 0)

BSub(a, b) == BNorm(BSubFrom(a, b, 1, 0))

\* a * k for 0 <= k < Base
RECURSIVE BMulFrom(_, _, _, _)
BMulFrom(a, k, i, carry) ==
    IF i > Len(a) THEN (IF carry = 0 THEN <<>> ELSE <<carry>>)
    ELSE LET p == a[i] * k + carry
         IN  <<p % Base>> \o BMulFrom(a, k, i + 1, p \div Base)

BMulSmall(a, k) == IF k = 0 THEN <<>> ELSE BMulFrom(a, k, 1, 0)

\* floor(a / k) for 0 < k < Base
RECURSIVE BDivFrom(_, _, _, _)
BDivFrom(a, k, i, rem) ==
    IF i = 0 THEN <<>>
    ELSE LET cur == rem * Base + a[i]
         IN  BDivFrom(a, k, i - 1, cur % k) \o <<cur \div k>>

BDivSmall(a, k) == BNorm(BDivFrom(a, k, Len(a), 0))

Zeros(n) == [i \in 1..n |-> 0]

BShl(a, s) ==
    IF a = <<>> THEN <<>>
    ELSE Zeros(s \div LimbBits) \o BMulSmall(a, 2 ^ (s % LimbBits))

BShr(a, s) ==
    IF s \div LimbBits >= Len(a) THEN <<>>
    ELSE BDivSmall(SubSeq(a, s \div LimbBits + 1, Len(a)), 2 ^ (s % LimbBits))

RECURSIVE IntBitLen(_)
IntBitLen(k) == IF k = 0 THEN 0 ELSE 1 + IntBitLen(k \div 2)

BBitLen(a) ==
    IF a = <<>> THEN 0 ELSE LimbBits * (Len(a) - 1) + IntBitLen(a[Len(a)])

\* bit i of a, bit 0 the least significant
BBit(a, i) == (BLimb(a, i \div LimbBits + 1) \div 2 ^ (i % LimbBits)) % 2

\* a mod 2^s
BLowBits(a, s) == BSub(a, BShl(BShr(a, s), s))

\* the largest d < Base with m * d <= r, for r < m * Base and m of n limbs
\* whose top limb is at least Base / 2: the quotient qhat of the two top
\* limbs of r by the top limb of m, capped at Base - 1, is d, d + 1 or d + 2
QDigitFrom(r, m, qhat) ==
    IF BCmp(BMulSmall(m, qhat), r) <= 0 THEN qhat
    ELSE IF BCmp(BMulSmall(m, qhat - 1), r) <= 0 THEN qhat - 1
    ELSE qhat - 2

QDigitTop(r, m, top) ==
    QDigitFrom(r, m, IF top \div m[Len(m)] >= Base THEN Base - 1
                     ELSE top \div m[Len(m)])

QDigit(r, m) ==
    QDigitTop(r, m, BLimb(r, Len(m) + 1) * Base + BLimb(r, Len(m)))

\* Schoolbook long division, one limb of a at a time from the top:
\* <<quotient limbs (not normalised), remainder>>.  Each step evaluates its
\* digit d before the next step begins.
RECURSIVE BDivModFrom(_, _, _, _)
BDivModRest(rest, d) == <<rest[1] \o <<d>>, rest[2]>>

BDivModDigit(a, m, i, cur, d) ==
    After(d, BDivModRest(BDivModFrom(a, m, i - 1, BSub(cur, BMulSmall(m, d))), d))

BDivModStep(a, m, i, cur) == After(cur, BDivModDigit(a, m, i, cur, QDigit(cur, m)))

BDivModFrom(a, m, i, rem) ==
    IF i = 0 THEN <<(<<>>), rem>>
    ELSE BDivModStep(a, m, i, BNorm(<<a[i]>> \o rem))

\* the division starts below the top Len(m) - 1 limbs of a, which are less
\* than m
BDivModNormal(a, m) ==
    IF Len(a) < Len(m) THEN <<(<<>>), a>>
    ELSE BDivModFrom(a, m, Len(a) - Len(m) + 1,
                     BNorm(SubSeq(a, Len(a) - Len(m) + 2, Len(a))))

BDivModShifted(a, m, sh) == BDivModNormal(BShl(a, sh), BShl(m, sh))

\* <<floor(a / m) (not normalised), sh * (a mod m)>> for m > 0: both are
\* shifted left until the top limb of m is at least Base / 2
BDivMod(a, m) == BDivModShifted(a, m, LimbBits - IntBitLen(m[Len(m)]))

\* ------------------------------------------------------------------------
\* binary64 values as signed multiples of 2^-70
\* ------------------------------------------------------------------------
FracBits == 69 + 1
MantBits == 52 + 1

Flt(neg, mag) == [neg |-> neg /\ mag # <<>>, mag |-> mag]

\* an integer -2^13 < k < 2^13 as a float (exact)
FInt(k) == IF k < 0 THEN Flt(TRUE, BShl(BFromInt(-k), FracBits))
           ELSE Flt(FALSE, BShl(BFromInt(k), FracBits))

\* round-to-nearest, ties-to-even, of the exact magnitude n (plus a positive
\* amount below one unit when sticky) to MantBits significant bits: n is cut
\* s bits from the bottom into q and a rest that compares as c to half a unit
Round53Up(q, c, sticky, s) ==
    BShl(IF c > 0 \/ (c = 0 /\ (sticky \/ BBit(q, 0) = 1)) THEN BAdd(q, <<1>>)
         ELSE q, s)

Round53Shift(n, sticky, s) ==
    IF s <= 0 THEN n
    ELSE Round53Up(BShr(n, s), BCmp(BLowBits(n, s), BShl(<<1>>, s - 1)), sticky, s)

Round53(n, sticky) == After(n, Round53Shift(n, sticky, BBitLen(n) - MantBits))

FCmp(x, y) ==
    IF x.neg /\ ~y.neg THEN -1
    ELSE IF ~x.neg /\ y.neg THEN 1
    ELSE IF x.neg THEN BCmp(y.mag, x.mag)
    ELSE BCmp(x.mag, y.mag)

FLt(x, y) == FCmp(x, y) < 0
FGt(x, y) == FCmp(x, y) > 0
FLe(x, y) == FCmp(x, y) <= 0

\* x - y
FSubMag(x, y, c) ==
    IF x.neg # y.neg THEN Flt(x.neg, Round53(BAdd(x.mag, y.mag), FALSE))
    ELSE IF c >= 0 THEN Flt(x.neg, Round53(BSub(x.mag, y.mag), FALSE))
    ELSE Flt(~x.neg, Round53(BSub(y.mag, x.mag), FALSE))

FSub(x, y) == After(x, FSubMag(x, y, BCmp(x.mag, y.mag)))

\* k * y for an integer 0 <= k < Base
FMulInt(k, y) == After(y, Flt(y.neg, Round53(BMulSmall(y.mag, k), FALSE)))

\* x * k for an integer 0 <= k < Base
FMulByInt(x, k) == FMulInt(k, x)

\* x / y for y > 0
FDivRound(neg, qr) == After(qr, Flt(neg, Round53(BNorm(qr[1]), qr[2] # <<>>)))

FDiv(x, y) == After(x, FDivRound(x.neg, BDivMod(BShl(x.mag, FracBits), y.mag)))

\* ------------------------------------------------------------------------
\* Program constants
\* ------------------------------------------------------------------------
INA219_ADDRESS == 66
INA219_REG_CONFIG == 0
INA219_REG_BUSVOLTAGE == 2
INA219_REG_CALIBRATION == 5
CONFIG_VALUE == 6655
CALIBRATION_VALUE == 4096

\* the float literal 0.004: 0x3F70624DD2F1A9FC = 4722366482869645312 * 2^-70
LSB_VOLTS == Flt(FALSE, <<28672, 3407, 23855, 3145, 4>>)
\* the float literal 2.4: 0x4003333333333333 = 5404319552844595 * 2^-51
SPAN_VOLTS == Flt(FALSE, <<0, 13104, 26214, 19660, 2457>>)
EMPTY_VOLTS == 6
PERCENT == 100

\* ------------------------------------------------------------------------
\* Bounds of the model
\* ------------------------------------------------------------------------
MaxTicks == 2
MaxCalibrations == 3

\* bytes the device returns for the two halves of a register word; the words
\* they form straddle every threshold of get_capacity and update_icon
HighBytes == {0, 46, 47, 51, 56, 60, 65, 255}
LowBytes == {0, 7, 56, 64, 71, 72, 136, 144, 151, 152, 160, 167, 168,
             200, 208, 215, 216, 224, 231, 232, 240, 247, 248, 255}
\* register contents before the program first writes them
PowerOnWords == {0, 1, 4095, 4096, 6655, 8192, 14751, 32768, 65280, 65535}

Registers == {INA219_REG_CONFIG, INA219_REG_CALIBRATION}

\* ------------------------------------------------------------------------
\* INA219 driver
\* ------------------------------------------------------------------------
WriteOp(reg, val, ok) ==
    [op |-> "write_word_data", addr |-> INA219_ADDRESS, reg |-> reg,
     val |-> val, ok |-> ok]

ReadOp(reg, ok) ==
    [op |-> "read_byte_data", addr |-> INA219_ADDRESS, reg |-> reg, ok |-> ok]

\* set_calibration on the driver drv = [regs, cal, log]: the device registers,
\* self._cal_value and the bus transactions issued so far.  fault = 0: both
\* writes succeed; fault = 1, 2: that write raises OSError and the rest of
\* the method does not run.
set_calibration_swapped(drv, fault) ==
    IF fault = 1
    THEN [drv EXCEPT !.log = @ \o <<WriteOp(INA219_REG_CONFIG, CONFIG_VALUE, FALSE)>>]
    ELSE IF fault = 2
    THEN [drv EXCEPT !.regs[INA219_REG_CONFIG] = CONFIG_VALUE,
                     !.log = @ \o <<WriteOp(INA219_REG_CONFIG, CONFIG_VALUE, TRUE),
                                    WriteOp(INA219_REG_CALIBRATION, drv.cal, FALSE)>>]
    ELSE [drv EXCEPT !.regs[INA219_REG_CONFIG] = CONFIG_VALUE,
                     !.regs[INA219_REG_CALIBRATION] = drv.cal,
                     !.log = @ \o <<WriteOp(INA219_REG_CONFIG, CONFIG_VALUE, TRUE),
                                    WriteOp(INA219_REG_CALIBRATION, drv.cal, TRUE)>>]

set_calibration_drift(drv, fault) ==
    IF fault = 1
    THEN [drv EXCEPT !.log = @ \o <<WriteOp(INA219_REG_CALIBRATION, drv.cal, FALSE)>>]
    ELSE IF fault = 2
    THEN [drv EXCEPT !.regs[INA219_REG_CALIBRATION] = drv.cal,
                     !.log = @ \o <<WriteOp(INA219_REG_CALIBRATION, drv.cal, TRUE),
                                    WriteOp(INA219_REG_CONFIG, CONFIG_VALUE, FALSE)>>]
    ELSE [drv EXCEPT !.regs[INA219_REG_CALIBRATION] = drv.cal,
                     !.regs[INA219_REG_CONFIG] = CONFIG_VALUE,
                     !.cal = (drv.cal * 2) % 65536,
                     !.log = @ \o <<WriteOp(INA219_REG_CALIBRATION, drv.cal, TRUE),
                                    WriteOp(INA219_REG_CONFIG, CONFIG_VALUE, TRUE)>>]

set_calibration(drv, fault) ==
    IF fault = 1
    THEN [drv EXCEPT !.log = @ \o <<WriteOp(INA219_REG_CALIBRATION, drv.cal, FALSE)>>]
    ELSE IF fault = 2
    THEN [drv EXCEPT !.regs[INA219_REG_CALIBRATION] = drv.cal,
                     !.log = @ \o <<WriteOp(INA219_REG_CALIBRATION, drv.cal, TRUE),
                                    WriteOp(INA219_REG_CONFIG, CONFIG_VALUE, FALSE)>>]
    ELSE [drv EXCEPT !.regs[INA219_REG_CALIBRATION] = drv.cal,
                     !.regs[INA219_REG_CONFIG] = CONFIG_VALUE,
                     !.log = @ \o <<WriteOp(INA219_REG_CALIBRATION, drv.cal, TRUE),
                                    WriteOp(INA219_REG_CONFIG, CONFIG_VALUE, TRUE)>>]

\* the registers read_word(reg) reads, in order: the high byte, then the low
read_word_regs(reg) == <<reg, reg + 1>>

\* the bus transactions of read_word(reg) when its first n reads succeed
\* (n = 2: both) and read n + 1, if any, raises OSError
read_word_ops(reg, n) ==
    LET rr == read_word_regs(reg)
    IN  IF n = 0 THEN <<ReadOp(rr[1], FALSE)>>
        ELSE IF n = 1 THEN <<ReadOp(rr[1], TRUE), ReadOp(rr[2], FALSE)>>
        ELSE <<ReadOp(rr[1], TRUE), ReadOp(rr[2], TRUE)>>

\* (high << 8) + low
read_word_swapped(high, low) == low * 2 ^ 8 + high

read_word(high, low) == high * 2 ^ 8 + low

\* (raw >> 3) * 0.004
get_bus_voltage_shift2(word) == FMulInt(word \div 2 ^ 2, LSB_VOLTS)

get_bus_voltage(word) == FMulInt(word \div 2 ^ 3, LSB_VOLTS)

\* if capacity > 100: capacity = 100; if capacity < 0: capacity = 0
Clamp(cap) ==
    After(cap, IF FGt(cap, FInt(100)) THEN FInt(100)
               ELSE IF FLt(cap, FInt(0)) THEN FInt(0)
               ELSE cap)

\* (voltage - 6) / 2.4 * 100, then the two clamps
get_capacity(volts) ==
    Clamp(FMulByInt(FDiv(FSub(volts, FInt(EMPTY_VOLTS)), SPAN_VOLTS), PERCENT))

\* the theme icon update_icon asks for
IconName(cap) ==
    IF FGt(cap, FInt(75)) THEN "battery-full"
    ELSE IF FGt(cap, FInt(50)) THEN "battery-good"
    ELSE IF FGt(cap, FInt(25)) THEN "battery-low"
    ELSE "battery-caution"

BToInt(a) == IF a = <<>> THEN 0 ELSE a[1]

Format1fUp(t, c) == IF c > 0 \/ (c = 0 /\ t % 2 = 1) THEN t + 1 ELSE t

Format1fOf(n) ==
    After(n, Format1fUp(BToInt(BShr(n, FracBits)),
                        BCmp(BLowBits(n, FracBits), BShl(<<1>>, FracBits - 1))))

\* f"{capacity:.1f}" for 0 <= capacity <= 100: the number of tenths printed,
\* the decimal nearest to the float's exact value, ties to even
Format1f(cap) ==
    After(cap, Format1fOf(BMulSmall(cap.mag, 10)))

\* every word the sampled bytes can form, and the conversions of each,
\* computed once
Words == {read_word(h, l) : h \in HighBytes, l \in LowBytes}
VoltageOf == [w \in Words |-> get_bus_voltage(w)]
CapacityOf == [w \in Words |-> get_capacity(VoltageOf[w])]
ToolTipOf == [w \in Words |-> Format1f(CapacityOf[w])]

\* ------------------------------------------------------------------------
\* State
\* ------------------------------------------------------------------------
VARIABLES
    pc,         \* "start", "driver_ready", "running", "crashed", "quit"
    regs,       \* the device's CONFIG and CALIBRATION registers
    cal_value,  \* self._cal_value, <<>> before INA219.__init__ sets it
    busLog,     \* every SMBus transaction issued, in order
    bytes,      \* <<high, low>> of the last update_icon, <<>> if it raised
    raw,        \* <<raw>> of the last update_icon
    voltage,    \* <<voltage>> of the last update_icon
    capacity,   \* <<capacity>> of the last update_icon
    icon,       \* theme icon the last update_icon asked for, "" if it raised
    trayIcon,   \* icon the tray shows, "" before the first setIcon
    toolTip,    \* <<tenths of a percent>> the tooltip shows, <<>> before
    calls,      \* calls the last update_icon made on its collaborators
    result,     \* "none", "ok", or "OSError" raised by the last update_icon
    ticks       \* timer events delivered

vars == <<pc, regs, cal_value, busLog, bytes, raw, voltage, capacity, icon,
          trayIcon, toolTip, calls, result, ticks>>

sample == <<bytes, raw, voltage, capacity, icon, calls, result>>
tray == <<trayIcon, toolTip>>

NoSample ==
    /\ bytes = <<>> /\ raw = <<>> /\ voltage = <<>> /\ capacity = <<>>
    /\ icon = "" /\ calls = <<>> /\ result = "none"

Init ==
    /\ pc = "start"
    /\ regs \in [Registers -> PowerOnWords]
    /\ cal_value = <<>>
    /\ busLog = <<>>
    /\ NoSample
    /\ trayIcon = "" /\ toolTip = <<>>
    /\ ticks = 0

\* INA219.__init__ as called from BatteryTray.__init__: store _cal_value and
\* run set_calibration; an OSError from a write is caught nowhere
Construct ==
    /\ pc = "start"
    /\ \E fault \in 0..2 :
         LET d == set_calibration([regs |-> regs, cal |-> CALIBRATION_VALUE,
                                   log |-> busLog], fault)
         IN  /\ regs' = d.regs
             /\ cal_value' = <<d.cal>>
             /\ busLog' = d.log
             /\ pc' = IF fault = 0 THEN "driver_ready" ELSE "crashed"
    /\ UNCHANGED <<sample, tray, ticks>>

\* update_icon when both byte reads succeed; themed: the theme has the icon
UpdateIconOk(high, low, themed) ==
    LET w == read_word(high, low)
    IN  /\ busLog' = busLog \o read_word_ops(INA219_REG_BUSVOLTAGE, 2)
        /\ bytes' = <<high, low>>
        /\ raw' = <<w>>
        /\ voltage' = <<VoltageOf[w]>>
        /\ capacity' = <<CapacityOf[w]>>
        /\ icon' = IconName(CapacityOf[w])
        /\ trayIcon' = IF themed THEN IconName(CapacityOf[w]) ELSE "battery-missing"
        /\ toolTip' = <<ToolTipOf[w]>>
        /\ calls' = <<"setIcon", "setToolTip">>
        /\ result' = "ok"
        /\ UNCHANGED <<regs, cal_value>>

\* update_icon when byte read n + 1 raises OSError: nothing after it runs
UpdateIconRaises(n) ==
    /\ busLog' = busLog \o read_word_ops(INA219_REG_BUSVOLTAGE, n)
    /\ bytes' = <<>> /\ raw' = <<>> /\ voltage' = <<>> /\ capacity' = <<>>
    /\ icon' = ""
    /\ calls' = <<>>
    /\ result' = "OSError"
    /\ UNCHANGED <<regs, cal_value, tray>>

\* the rest of BatteryTray.__init__: the first update_icon, tray.show and
\* startTimer; an OSError leaves __init__ and ends the process
InitialUpdate ==
    /\ pc = "driver_ready"
    /\ \/ /\ \E h \in HighBytes, l \in LowBytes, themed \in BOOLEAN :
               UpdateIconOk(h, l, themed)
          /\ pc' = "running"
       \/ /\ \E n \in 0..1 : UpdateIconRaises(n)
          /\ pc' = "crashed"
    /\ UNCHANGED ticks

\* mutant: a tick that reads the sensor but publishes the capacity it kept
\* from the previous sample
TimerEventStale ==
    /\ pc = "running"
    /\ ticks < MaxTicks
    /\ ticks' = ticks + 1
    /\ pc' = pc
    /\ \E h \in HighBytes, l \in LowBytes :
         LET w == read_word(h, l)
             kept == IF capacity # <<>> THEN capacity[1] ELSE CapacityOf[w]
         IN  /\ busLog' = busLog \o read_word_ops(INA219_REG_BUSVOLTAGE, 2)
             /\ bytes' = <<h, l>>
             /\ raw' = <<w>>
             /\ voltage' = <<VoltageOf[w]>>
             /\ capacity' = <<kept>>
             /\ icon' = IconName(kept)
             /\ trayIcon' = IconName(kept)
             /\ toolTip' = IF capacity # <<>> THEN toolTip ELSE <<ToolTipOf[w]>>
             /\ calls' = <<"setIcon", "setToolTip">>
             /\ result' = "ok"
             /\ UNCHANGED <<regs, cal_value>>

\* mutant: a tick that calibrates again before it samples
TimerEventRecal ==
    /\ pc = "running"
    /\ ticks < MaxTicks
    /\ ticks' = ticks + 1
    /\ pc' = pc
    /\ \E h \in HighBytes, l \in LowBytes :
         LET d == set_calibration([regs |-> regs, cal |-> cal_value[1],
                                   log |-> busLog], 0)
             w == read_word(h, l)
         IN  /\ busLog' = d.log \o read_word_ops(INA219_REG_BUSVOLTAGE, 2)
             /\ regs' = d.regs
             /\ bytes' = <<h, l>>
             /\ raw' = <<w>>
             /\ voltage' = <<VoltageOf[w]>>
             /\ capacity' = <<CapacityOf[w]>>
             /\ icon' = IconName(CapacityOf[w])
             /\ trayIcon' = IconName(CapacityOf[w])
             /\ toolTip' = <<ToolTipOf[w]>>
             /\ calls' = <<"setIcon", "setToolTip">>
             /\ result' = "ok"
             /\ UNCHANGED cal_value

\* app.timerEvent = update_icon, every 5000 ms.  An OSError leaves the
\* callback; what PyQt5 then does depends on its version: 5.5 and later abort
\* the process, earlier ones print the traceback and return to the event loop
TimerEvent ==
    /\ pc = "running"
    /\ ticks < MaxTicks
    /\ ticks' = ticks + 1
    /\ \/ /\ \E h \in HighBytes, l \in LowBytes, themed \in BOOLEAN :
               UpdateIconOk(h, l, themed)
          /\ pc' = pc
       \/ /\ \E n \in 0..1 : UpdateIconRaises(n)
          /\ pc' \in {"running", "crashed"}

\* the tray menu's Quit: app.quit() ends exec_ and the process
Quit ==
    /\ pc = "running"
    /\ pc' = "quit"
    /\ UNCHANGED <<regs, cal_value, busLog, sample, tray, ticks>>

Next == Construct \/ InitialUpdate \/ TimerEvent \/ Quit

Spec == Init /\ [][Next]_vars

\* ------------------------------------------------------------------------
\* set_calibration on its own: a driver whose _cal_value is set and whose
\* device holds any register contents, calibrated again and again
\* ------------------------------------------------------------------------
CalInit ==
    /\ pc = "driver_ready"
    /\ regs \in [Registers -> PowerOnWords]
    /\ cal_value = <<CALIBRATION_VALUE>>
    /\ busLog = <<>>
    /\ NoSample
    /\ trayIcon = "" /\ toolTip = <<>>
    /\ ticks = 0

Recalibrate ==
    /\ pc = "driver_ready"
    /\ Len(busLog) < 2 * MaxCalibrations
    /\ \E fault \in 0..2 :
         LET d == set_calibration([regs |-> regs, cal |-> cal_value[1],
                                   log |-> busLog], fault)
         IN  /\ regs' = d.regs
             /\ cal_value' = <<d.cal>>
             /\ busLog' = d.log
             /\ pc' = IF fault = 0 THEN pc ELSE "crashed"
    /\ UNCHANGED <<sample, tray, ticks>>

CalNext == Recalibrate

CalSpec == CalInit /\ [][CalNext]_vars

\* ------------------------------------------------------------------------
\* Properties
\* ------------------------------------------------------------------------

\* C1: the critical-shutdown action is invoked on the first tick of every
\* excursion of the capacity below 5: a timer tick that samples a capacity
\* below 5 right after a sample that was not below 5 invokes "shutdown".
\* (update_icon calls setIcon and setToolTip and nothing else.)
C1_ShutdownOnEntryBelowFive ==
    [][(/\ ticks' = ticks + 1
        /\ result = "ok" /\ ~FLt(capacity[1], FInt(5))
        /\ result' = "ok" /\ FLt(capacity'[1], FInt(5)))
       => \E i \in 1..Len(calls') : calls'[i] = "shutdown"]_vars

\* C2: the level of every sample follows the five thresholds: > 75 Full,
\* > 50 Good, > 25 Low, >= 5 Caution, and below 5 a level of its own,
\* Critical, distinct from the other four.
C2_FiveLevels ==
    result = "ok" =>
        LET c == capacity[1]
        IN  /\ FGt(c, FInt(75)) => icon = "battery-full"
            /\ (FGt(c, FInt(50)) /\ FLe(c, FInt(75))) => icon = "battery-good"
            /\ (FGt(c, FInt(25)) /\ FLe(c, FInt(50))) => icon = "battery-low"
            /\ (FLe(FInt(5), c) /\ FLe(c, FInt(25))) => icon = "battery-caution"
            /\ FLt(c, FInt(5)) => icon \notin {"battery-full", "battery-good",
                                              "battery-low", "battery-caution"}

\* C3: a bus fault during a timer tick never stops the monitor: the process
\* keeps running and the failed tick publishes a status to the tray.
C3_FaultedTickPublishesAndContinues ==
    (ticks > 0 /\ result = "OSError") =>
        /\ pc = "running"
        /\ \E i \in 1..Len(calls) : calls[i] \in {"setIcon", "setToolTip"}

\* C4: the first two bus transactions of every execution are the write of
\* CALIBRATION and then the write of CONFIG, and no byte read (of BUS_VOLTAGE
\* or any register) happens before both have completed.
C4_CalibrationPrecedesReads ==
    /\ Len(busLog) >= 1 =>
           /\ busLog[1].op = "write_word_data"
           /\ busLog[1].reg = INA219_REG_CALIBRATION
    /\ Len(busLog) >= 2 =>
           /\ busLog[2].op = "write_word_data"
           /\ busLog[2].reg = INA219_REG_CONFIG
    /\ \A i \in 1..Len(busLog) :
           busLog[i].op = "read_byte_data" =>
               /\ i > 2
               /\ busLog[1] = WriteOp(INA219_REG_CALIBRATION, CALIBRATION_VALUE, TRUE)
               /\ busLog[2] = WriteOp(INA219_REG_CONFIG, CONFIG_VALUE, TRUE)

C4_SampledAfterCalibration ==
    /\ pc = "running"
    /\ Len(busLog) = 4
    /\ busLog[3] = ReadOp(INA219_REG_BUSVOLTAGE, TRUE)

\* C5: calibration is idempotent: once one set_calibration has completed, a
\* further completed set_calibration leaves CALIBRATION and CONFIG exactly
\* as they were, so the device reads the same after two calls as after one.
C5_CalibrationIdempotent ==
    [][(/\ pc = "driver_ready" /\ pc' = "driver_ready"
        /\ Len(busLog) >= 2
        /\ Len(busLog') = Len(busLog) + 2)
       => regs' = regs]_vars

C5_CalibratedTwice ==
    /\ pc = "driver_ready"
    /\ Len(busLog) = 4
    /\ busLog[4] = WriteOp(INA219_REG_CONFIG, CONFIG_VALUE, TRUE)
    /\ regs[INA219_REG_CALIBRATION] = CALIBRATION_VALUE

\* C6: the capacity of every sample lies in 0..100, is exactly 100 when the
\* voltage read is 8.4 V or more (2100 units of 4 mV), exactly 0 when it is
\* 6.0 V or less (1500 units), and exactly 50 at the midpoint 7.2 V (1800).
C6_CapacityClampedAndExactAtMidpoint ==
    result = "ok" =>
        LET n == raw[1] \div 2 ^ 3
            c == capacity[1]
        IN  /\ FLe(FInt(0), c) /\ FLe(c, FInt(100))
            /\ n >= 2100 => c = FInt(100)
            /\ n <= 1500 => c = FInt(0)
            /\ n = 1800 => c = FInt(50)

\* C7: the voltage of every sample is (w >> 3) * 0.004 for the word w read:
\* it is the 4 mV multiple (w >> 3) / 250 up to the rounding of the float
\* product, words that differ only in their low 3 bits give the same voltage,
\* and a smaller word never gives a larger voltage.
C7_BusVoltageScaling ==
    result = "ok" =>
        LET n == raw[1] \div 2 ^ 3
            scaled == BMulSmall(voltage[1].mag, 250)
            exact == BShl(BFromInt(n), FracBits)
            err == IF BCmp(scaled, exact) >= 0 THEN BSub(scaled, exact)
                   ELSE BSub(exact, scaled)
        IN  /\ ~voltage[1].neg
            /\ BCmp(err, BMulSmall(BShl(<<1>>, FracBits - MantBits + 2), n)) <= 0
            /\ \A w \in Words :
                   /\ w \div 2 ^ 3 = n => VoltageOf[w] = voltage[1]
                   /\ w <= raw[1] => FLe(VoltageOf[w], voltage[1])
                   /\ w >= raw[1] => FLe(voltage[1], VoltageOf[w])

C7_FlagBitsSetInWord ==
    /\ result = "ok"
    /\ raw[1] % 2 ^ 3 = 7
    /\ raw[1] \div 2 ^ 3 = 1800

\* C8: every word read is two byte reads, the high byte at the register and
\* then the low byte at the register + 1, combined as (high << 8) | low,
\* which lies in 0..65535; every write is one write_word_data transaction
\* carrying a 16-bit word.
C8_WordReadIsTwoByteReads ==
    /\ result = "ok" =>
           LET Bit(v, k) == (v \div 2 ^ k) % 2 = 1
           IN  /\ Len(busLog) >= 2
               /\ busLog[Len(busLog) - 1] = ReadOp(INA219_REG_BUSVOLTAGE, TRUE)
               /\ busLog[Len(busLog)] = ReadOp(INA219_REG_BUSVOLTAGE + 1, TRUE)
               /\ raw[1] \in 0..65535
               /\ \A k \in 0..15 :
                      Bit(raw[1], k) <=> (Bit(bytes[1] * 2 ^ 8, k) \/ Bit(bytes[2], k))
    /\ \A i \in 1..Len(busLog) :
           /\ (busLog[i].op = "read_byte_data" /\ busLog[i].reg = INA219_REG_BUSVOLTAGE + 1)
                  => (i > 1 /\ busLog[i - 1] = ReadOp(INA219_REG_BUSVOLTAGE, TRUE))
           /\ (busLog[i] = ReadOp(INA219_REG_BUSVOLTAGE, TRUE))
                  => (i < Len(busLog) /\ busLog[i + 1].op = "read_byte_data"
                                      /\ busLog[i + 1].reg = INA219_REG_BUSVOLTAGE + 1)
           /\ busLog[i].op # "read_byte_data"
                  => (busLog[i].op = "write_word_data" /\ busLog[i].val \in 0..65535)

C8_BothBytesNonZero ==
    /\ result = "ok"
    /\ bytes = <<47, 200>>
    /\ raw = <<12232>>

\* C9: every update_icon reads the two bytes afresh, and the capacity, the
\* level and the tooltip it publishes are functions of those two bytes
\* alone, whatever the earlier samples were.
C9_SampleDependsOnlyOnFreshBytes ==
    [][(busLog' # busLog /\ result' = "ok") =>
           LET w == bytes'[1] * 2 ^ 8 + bytes'[2]
           IN  /\ busLog' = busLog \o <<ReadOp(INA219_REG_BUSVOLTAGE, TRUE),
                                        ReadOp(INA219_REG_BUSVOLTAGE + 1, TRUE)>>
               /\ raw' = <<w>>
               /\ capacity' = <<CapacityOf[w]>>
               /\ icon' = IconName(CapacityOf[w])
               /\ trayIcon' \in {icon', "battery-missing"}
               /\ toolTip' = <<ToolTipOf[w]>>]_vars

C9_SecondTickPublishesFull ==
    /\ ticks = 2
    /\ result = "ok"
    /\ Len(busLog) = 8
    /\ trayIcon = "battery-full"
    /\ toolTip = <<1000>>

\* C10: once the driver is constructed, nothing writes to the device again:
\* the only writes on the bus are the two of the construction, each register
\* of the calibration pair is written exactly once, and CALIBRATION and
\* CONFIG keep the words written then.
C10_TicksAreReadOnly ==
    (Len(busLog) >= 2 /\ busLog[2].ok) =>
        /\ \A i \in 1..Len(busLog) : busLog[i].op = "write_word_data" => i <= 2
        /\ \A r \in Registers :
               Cardinality({i \in 1..Len(busLog) :
                   busLog[i].op = "write_word_data" /\ busLog[i].reg = r}) = 1
        /\ regs = [r \in Registers |->
                       IF r = INA219_REG_CALIBRATION THEN CALIBRATION_VALUE
                       ELSE CONFIG_VALUE]

C10_QuitAfterTwoTicks ==
    /\ pc = "quit"
    /\ ticks = 2
    /\ Len(busLog) = 8

====
